---- MODULE Spec2Model ----
(***************************************************************************)
(* CelestialSim: the N-body step loop of nbody_simulation_optimized.cpp    *)
(* (velocity-Verlet, adaptive step, inelastic merges, energy monitor,      *)
(* snapshot publication) and of nbody_simulation.cpp (Euler variant).      *)
(*                                                                         *)
(* Numbers.  A C++ double is modelled by an extended rational <<n, d>>:    *)
(*   d > 0      the finite value n/d, in lowest terms;                     *)
(*   <<1, 0>>   +infinity,  <<-1, 0>>  -infinity,  <<0, 0>>  NaN.          *)
(* +, -, *, / are exact on finite values and follow IEEE-754 on the        *)
(* special values (x/0, 0/0, inf-inf, 0*inf, comparisons with NaN).        *)
(* sqrt and cbrt are exact on perfect squares/cubes and otherwise round    *)
(* down to a multiple of 1/RootScale.                                      *)
(***************************************************************************)
EXTENDS Integers, Sequences, FiniteSets, TLC

VARIABLES
    variant,            \* which program runs: "optimized" or "basic"
    config,             \* SimulationConfig (read-only during a run)
    TIME_STEP,          \* global base step
    bodies,             \* the simulation thread's own std::vector<Body>
    iterations,         \* argument of run_simulation_threaded
    iteration,          \* loop counter
    adaptive_dt,        \* dt of the current iteration
    collision_count,    \* merges performed so far
    current_bodies,     \* shared snapshot, guarded by data_mutex
    data_mutex,         \* holder of the lock: "none", "sim" or "main"
    simulation_running, \* std::atomic<bool>
    initial_energy,     \* EnergyInfo baseline
    current_energy,     \* EnergyInfo of the last monitored iteration
    pc,                 \* position of the simulation thread
    mpc,                \* position of the main thread
    save_b,             \* next row index inside save_realtime_data
    csv,                \* nbody_realtime_data.csv: whether it exists, its rows
    sentinel,           \* shutdown_signal.txt exists
    launch_ok,          \* launch_visualization: "pending", "ok" or "failed"
    displayed,          \* what main's final display_system_state printed
    csv_seen,           \* what the external visualizer last read
    save_data,          \* argument of run_simulation
    history,            \* run_simulation's std::vector<std::vector<Body>>
    results,            \* nbody_simulation_results.csv: whether it exists, its rows
    hist                \* observation record of the current iteration

vars == <<variant, config, TIME_STEP, bodies, iterations, iteration, adaptive_dt,
          collision_count, current_bodies, data_mutex, simulation_running,
          initial_energy, current_energy, pc, mpc, save_b, csv, sentinel,
          launch_ok, displayed, csv_seen, save_data, history, results, hist>>

----------------------------------------------------------------------------
(* Bounds of the model *)

\* the largest iteration bound a run is given
MaxIter == 2
\* sqrt and cbrt of a value that is no perfect power round to 1/RootScale
RootScale == 4
\* the longest body vector calculate_adaptive_timestep is applied to on its
\* own
MaxDtBodies == 2
\* an iteration is explored only when the numerators and denominators of
\* the body state before and after it lie within FitBound: the exact
\* rationals of two bodies that keep interacting outgrow TLC's
\* 32-bit integers after that
FitBound == 1000

----------------------------------------------------------------------------
(* double arithmetic *)

IAbs(i) == IF i < 0 THEN -i ELSE i

ISgn(i) == IF i < 0 THEN -1 ELSE IF i > 0 THEN 1 ELSE 0

RECURSIVE GCD(_, _)
GCD(a, b) == IF b = 0 THEN a ELSE GCD(b, a % b)

\* the double n/d (d # 0), or the special value of sign n when d = 0
Q(n, d) ==
    IF d = 0 THEN <<ISgn(n), 0>>
    ELSE LET g == GCD(IAbs(n), IAbs(d))
             s == IF d < 0 THEN -1 ELSE 1
         IN  <<s * (n \div g), IAbs(d) \div g>>

Zero == <<0, 1>>
One == <<1, 1>>
NaN == <<0, 0>>
PosInf == <<1, 0>>
NegInf == <<-1, 0>>

IsNaN(a) == a[2] = 0 /\ a[1] = 0
IsInf(a) == a[2] = 0 /\ a[1] # 0
IsFinite(a) == a[2] > 0
IsZero(a) == a[2] > 0 /\ a[1] = 0

Neg(a) == <<-a[1], a[2]>>

Add(a, b) ==
    IF IsNaN(a) \/ IsNaN(b) THEN NaN
    ELSE IF IsInf(a) /\ IsInf(b) THEN (IF a[1] = b[1] THEN a ELSE NaN)
    ELSE IF IsInf(a) THEN a
    ELSE IF IsInf(b) THEN b
    ELSE LET g == GCD(a[2], b[2])
         IN  Q(a[1] * (b[2] \div g) + b[1] * (a[2] \div g), a[2] * (b[2] \div g))

Sub(a, b) == Add(a, Neg(b))

Mul(a, b) ==
    IF IsNaN(a) \/ IsNaN(b) THEN NaN
    ELSE IF IsInf(a) \/ IsInf(b)
         THEN (IF IsZero(a) \/ IsZero(b) THEN NaN ELSE <<ISgn(a[1]) * ISgn(b[1]), 0>>)
    ELSE IF a[1] = 0 \/ b[1] = 0 THEN Zero
    ELSE LET g1 == GCD(IAbs(a[1]), b[2])
             g2 == GCD(IAbs(b[1]), a[2])
         IN  <<(a[1] \div g1) * (b[1] \div g2), (a[2] \div g2) * (b[2] \div g1)>>

Div(a, b) ==
    IF IsNaN(a) \/ IsNaN(b) THEN NaN
    ELSE IF IsInf(b) THEN (IF IsInf(a) THEN NaN ELSE Zero)
    ELSE IF IsInf(a) THEN <<a[1] * (IF b[1] < 0 THEN -1 ELSE 1), 0>>
    ELSE IF b[1] = 0 THEN <<ISgn(a[1]), 0>>
    ELSE Mul(a, <<ISgn(b[1]) * b[2], IAbs(b[1])>>)

RECURSIVE LtFrac(_, _, _, _)
\* n1/d1 < n2/d2 for n1, n2 >= 0 and d1, d2 > 0, by continued fractions
\* (no product is formed, so no integer of TLC overflows)
LtFrac(n1, d1, n2, d2) ==
    LET q1 == n1 \div d1
        q2 == n2 \div d2
        r1 == n1 % d1
        r2 == n2 % d2
    IN  IF q1 # q2 THEN q1 < q2
        ELSE IF r2 = 0 THEN FALSE
        ELSE IF r1 = 0 THEN TRUE
        ELSE LtFrac(d2, r2, d1, r1)

\* a < b; every comparison with NaN is false
Lt(a, b) ==
    IF IsNaN(a) \/ IsNaN(b) THEN FALSE
    ELSE IF IsInf(a) THEN a[1] < 0 /\ b # a
    ELSE IF IsInf(b) THEN b[1] > 0
    ELSE IF a[1] < 0 /\ b[1] >= 0 THEN TRUE
    ELSE IF a[1] >= 0 /\ b[1] < 0 THEN FALSE
    ELSE IF a[1] < 0 THEN LtFrac(-b[1], b[2], -a[1], a[2])
    ELSE LtFrac(a[1], a[2], b[1], b[2])

Le(a, b) == ~IsNaN(a) /\ ~IsNaN(b) /\ ~Lt(b, a)

\* std::min(a, b) is (b < a) ? b : a and std::max(a, b) is (a < b) ? b : a
StdMin(a, b) == IF Lt(b, a) THEN b ELSE a
StdMax(a, b) == IF Lt(a, b) THEN b ELSE a

\* std::abs
FAbs(a) == <<IAbs(a[1]), a[2]>>

RECURSIVE IRoot(_, _, _, _)
\* the largest r in lo..hi with r^k <= n (k is 2 or 3; lo^k <= n is given)
IRoot(k, n, lo, hi) ==
    IF lo >= hi THEN lo
    ELSE LET mid == (lo + hi + 1) \div 2
             p == IF k = 2 THEN mid * mid ELSE mid * mid * mid
         IN  IF p <= n THEN IRoot(k, n, mid, hi) ELSE IRoot(k, n, lo, mid - 1)

RootBound(k) == IF k = 2 THEN 46340 ELSE 1290

\* the k-th root of a finite a >= 0: exact when numerator and denominator
\* are perfect k-th powers, else rounded down to a multiple of 1/RootScale
RootOf(k, a) ==
    LET rn == IRoot(k, a[1], 0, RootBound(k))
        rd == IRoot(k, a[2], 0, RootBound(k))
        pw(r) == IF k = 2 THEN r * r ELSE r * r * r
        sc == pw(RootScale)
    IN  IF pw(rn) = a[1] /\ pw(rd) = a[2] THEN <<rn, rd>>
        ELSE Q(IRoot(k, (a[1] * sc) \div a[2], 0, RootBound(k)), RootScale)

\* std::sqrt
Sqrt(a) ==
    IF IsNaN(a) THEN NaN
    ELSE IF IsInf(a) THEN (IF a[1] > 0 THEN PosInf ELSE NaN)
    ELSE IF a[1] < 0 THEN NaN
    ELSE RootOf(2, a)

\* std::cbrt
Cbrt(a) ==
    IF IsNaN(a) \/ IsInf(a) THEN a
    ELSE IF a[1] < 0 THEN Neg(RootOf(3, Neg(a)))
    ELSE RootOf(3, a)

\* std::pow(a, 3)
Pow3(a) == Mul(a, Mul(a, a))

Half == <<1, 2>>

\* the literal 1e-15 of the source: it lies below every non-zero magnitude
\* of the model, which works in units where G = 1; it is kept as the
\* smallest reciprocal the 32-bit integers of TLC can hold
TinyDen == 1000000000

Tiny == <<1, TinyDen>>

----------------------------------------------------------------------------
(* struct Vector3 *)

Vector3(x, y, z) == [x |-> x, y |-> y, z |-> z]

VZero == Vector3(Zero, Zero, Zero)

VAdd(u, v) == Vector3(Add(u.x, v.x), Add(u.y, v.y), Add(u.z, v.z))

VSub(u, v) == Vector3(Sub(u.x, v.x), Sub(u.y, v.y), Sub(u.z, v.z))

VScale(u, s) == Vector3(Mul(u.x, s), Mul(u.y, s), Mul(u.z, s))

VDiv(u, s) == Vector3(Div(u.x, s), Div(u.y, s), Div(u.z, s))

magnitude_squared(u) == Add(Add(Mul(u.x, u.x), Mul(u.y, u.y)), Mul(u.z, u.z))

magnitude(u) == Sqrt(magnitude_squared(u))

normalize(u) ==
    LET mag == magnitude(u)
    IN  IF Lt(Tiny, mag) THEN Vector3(Div(u.x, mag), Div(u.y, mag), Div(u.z, mag))
        ELSE VZero

VFinite(u) == IsFinite(u.x) /\ IsFinite(u.y) /\ IsFinite(u.z)

----------------------------------------------------------------------------
(* class Body *)

\* gravitational constant, in the model's units
G == One

\* 4 * M_PI * earth_density / 3 in the model's units
DensityFactor == One

\* Body::Body: the body is active whatever its mass; a radius that is not
\* supplied (r <= 0) is estimated from the mass
Body(m, pos, vel, name, r) ==
    [mass |-> m,
     radius |-> IF Le(r, Zero) THEN Cbrt(Div(m, DensityFactor)) ELSE r,
     position |-> pos, velocity |-> vel,
     acceleration |-> VZero, prev_acceleration |-> VZero,
     name |-> name, active |-> TRUE]

\* Body::calculate_force_from, for this = bs[i] and other = bs[j]
calculate_force_from(bs, i, j) ==
    IF ~bs[i].active \/ ~bs[j].active \/ i = j THEN VZero
    ELSE LET direction == VSub(bs[j].position, bs[i].position)
             softening == Mul(StdMax(bs[i].radius, bs[j].radius), <<1, 10>>)
             distance_sq == Add(magnitude_squared(direction), Mul(softening, softening))
             force_magnitude == Div(Mul(Mul(G, bs[i].mass), bs[j].mass), distance_sq)
         IN  VScale(normalize(direction), force_magnitude)

\* a faulty collision test, to set against check_collision: the active
\* flags are not read
check_collision_any(bs, i, j) ==
    IF i = j THEN FALSE
    ELSE Lt(magnitude(VSub(bs[i].position, bs[j].position)),
            Mul(Add(bs[i].radius, bs[j].radius), config.collision_distance_factor))

\* Body::check_collision
check_collision(bs, i, j) ==
    IF ~bs[i].active \/ ~bs[j].active \/ i = j THEN FALSE
    ELSE LET min_distance == Mul(Add(bs[i].radius, bs[j].radius),
                                 config.collision_distance_factor)
             distance == magnitude(VSub(bs[i].position, bs[j].position))
         IN  Lt(distance, min_distance)

\* a faulty update, to set against verlet_update: the acceleration used is
\* not kept for the next step
verlet_update_forgetful(b, dt) ==
    IF ~b.active THEN b
    ELSE [b EXCEPT
            !.position = VAdd(b.position,
                              VAdd(VScale(b.velocity, dt),
                                   VScale(b.acceleration, Mul(Mul(Half, dt), dt)))),
            !.velocity = VAdd(b.velocity,
                              VScale(VAdd(b.prev_acceleration, b.acceleration),
                                     Mul(Half, dt)))]

\* a faulty update, to set against verlet_update: the active flag is not
\* read
verlet_update_always(b, dt) ==
    [b EXCEPT
        !.position = VAdd(b.position,
                          VAdd(VScale(b.velocity, dt),
                               VScale(b.acceleration, Mul(Mul(Half, dt), dt)))),
        !.velocity = VAdd(b.velocity,
                          VScale(VAdd(b.prev_acceleration, b.acceleration),
                                 Mul(Half, dt))),
        !.prev_acceleration = b.acceleration]

\* Body::verlet_update
verlet_update(b, dt) ==
    IF ~b.active THEN b
    ELSE LET new_acceleration == b.acceleration
         IN  [b EXCEPT
                !.position = VAdd(b.position,
                                  VAdd(VScale(b.velocity, dt),
                                       VScale(b.acceleration, Mul(Mul(Half, dt), dt)))),
                !.velocity = VAdd(b.velocity,
                                  VScale(VAdd(b.prev_acceleration, new_acceleration),
                                         Mul(Half, dt))),
                !.prev_acceleration = new_acceleration]

\* Body::kinetic_energy
kinetic_energy(b) == Mul(Mul(Half, b.mass), magnitude_squared(b.velocity))

\* Body::potential_energy_with
potential_energy_with(bs, i, j) ==
    IF ~bs[i].active \/ ~bs[j].active \/ i = j THEN Zero
    ELSE LET distance == magnitude(VSub(bs[i].position, bs[j].position))
         IN  IF Lt(distance, Tiny) THEN Zero
             ELSE Div(Mul(Mul(Neg(G), bs[i].mass), bs[j].mass), distance)

\* a faulty merge, to set against handle_collision: the survivor keeps its
\* own mass and the absorbed body's mass is lost
handle_collision_lossy(bs, i, j) ==
    IF ~bs[i].active \/ ~bs[j].active THEN bs
    ELSE IF Le(bs[j].mass, bs[i].mass) THEN [bs EXCEPT ![j].active = FALSE]
    ELSE [bs EXCEPT ![i].active = FALSE]

\* a faulty merge, to set against handle_collision: the flag of the
\* survivor is cleared as well
handle_collision_both(bs, i, j) ==
    IF ~bs[i].active \/ ~bs[j].active THEN bs
    ELSE LET total_mass == Add(bs[i].mass, bs[j].mass)
             s == IF Le(bs[j].mass, bs[i].mass) THEN i ELSE j
         IN  [bs EXCEPT ![s].mass = total_mass,
                        ![i].active = FALSE,
                        ![j].active = FALSE]

\* a faulty merge, to set against handle_collision: the first operand
\* survives whatever the masses
handle_collision_first(bs, i, j) ==
    IF ~bs[i].active \/ ~bs[j].active THEN bs
    ELSE LET total_mass == Add(bs[i].mass, bs[j].mass)
         IN  [bs EXCEPT
                 ![i] = [bs[i] EXCEPT
                            !.mass = total_mass,
                            !.velocity = VDiv(VAdd(VScale(bs[i].velocity, bs[i].mass),
                                                   VScale(bs[j].velocity, bs[j].mass)),
                                              total_mass),
                            !.position = VDiv(VAdd(VScale(bs[i].position, bs[i].mass),
                                                   VScale(bs[j].position, bs[j].mass)),
                                              total_mass),
                            !.radius = Cbrt(Add(Pow3(bs[i].radius), Pow3(bs[j].radius))),
                            !.name = bs[i].name \o <<"+">> \o bs[j].name],
                 ![j] = [bs[j] EXCEPT !.active = FALSE]]

\* handle_collision(bs[i], bs[j]): the vector after the merge
handle_collision(bs, i, j) ==
    IF ~bs[i].active \/ ~bs[j].active THEN bs
    ELSE LET body1 == bs[i]
             body2 == bs[j]
             total_mass == Add(body1.mass, body2.mass)
             new_velocity == VDiv(VAdd(VScale(body1.velocity, body1.mass),
                                       VScale(body2.velocity, body2.mass)), total_mass)
             new_position == VDiv(VAdd(VScale(body1.position, body1.mass),
                                       VScale(body2.position, body2.mass)), total_mass)
             new_radius == Cbrt(Add(Pow3(body1.radius), Pow3(body2.radius)))
         IN  IF Le(body2.mass, body1.mass)
             THEN [bs EXCEPT
                     ![i] = [body1 EXCEPT !.mass = total_mass,
                                          !.velocity = new_velocity,
                                          !.position = new_position,
                                          !.radius = new_radius,
                                          !.name = body1.name \o <<"+">> \o body2.name],
                     ![j] = [body2 EXCEPT !.active = FALSE]]
             ELSE [bs EXCEPT
                     ![j] = [body2 EXCEPT !.mass = total_mass,
                                          !.velocity = new_velocity,
                                          !.position = new_position,
                                          !.radius = new_radius,
                                          !.name = body1.name \o <<"+">> \o body2.name],
                     ![i] = [body1 EXCEPT !.active = FALSE]]

\* calculate_adaptive_timestep: the loop over the bodies from index i on
RECURSIVE MinTimestep(_, _, _)
MinTimestep(bs, i, min_timestep) ==
    IF i > Len(bs) THEN min_timestep
    ELSE IF ~bs[i].active THEN MinTimestep(bs, i + 1, min_timestep)
    ELSE LET acc_magnitude == magnitude(bs[i].acceleration)
             suggested_dt == Mul(<<1, 10>>, Sqrt(Div(bs[i].radius, acc_magnitude)))
         IN  IF Lt(Tiny, acc_magnitude)
             THEN MinTimestep(bs, i + 1, StdMin(min_timestep, suggested_dt))
             ELSE MinTimestep(bs, i + 1, min_timestep)

\* a faulty clamp, to set against ClampTimestep: the lower bound is left out
ClampTimestepNoFloor(min_timestep, base_timestep) ==
    StdMin(min_timestep, base_timestep)

\* the closing clamp of calculate_adaptive_timestep
ClampTimestep(min_timestep, base_timestep) ==
    StdMax(StdMin(min_timestep, base_timestep), Mul(base_timestep, <<1, 100>>))

calculate_adaptive_timestep(bs, base_timestep) ==
    IF ~config.use_adaptive_timestep THEN base_timestep
    ELSE ClampTimestep(MinTimestep(bs, 1, base_timestep), base_timestep)

\* a faulty kinetic loop, to set against KineticSum: the active flag is not
\* read
RECURSIVE KineticSumOfAll(_, _, _)
KineticSumOfAll(bs, i, acc) ==
    IF i > Len(bs) THEN acc
    ELSE KineticSumOfAll(bs, i + 1, Add(acc, kinetic_energy(bs[i])))

\* calculate_system_energy: the kinetic loop
RECURSIVE KineticSum(_, _, _)
KineticSum(bs, i, acc) ==
    IF i > Len(bs) THEN acc
    ELSE IF bs[i].active THEN KineticSum(bs, i + 1, Add(acc, kinetic_energy(bs[i])))
    ELSE KineticSum(bs, i + 1, acc)

\* calculate_system_energy: the potential loops
RECURSIVE PotentialSum(_, _, _, _)
PotentialSum(bs, i, j, acc) ==
    IF i > Len(bs) THEN acc
    ELSE IF ~bs[i].active \/ j > Len(bs) THEN PotentialSum(bs, i + 1, i + 2, acc)
    ELSE IF ~bs[j].active THEN PotentialSum(bs, i, j + 1, acc)
    ELSE PotentialSum(bs, i, j + 1, Add(acc, potential_energy_with(bs, i, j)))

\* what an EnergyInfo field holds before anything is stored in it
Indeterminate == <<0, -1>>

\* calculate_system_energy: relative_error is not set by it
calculate_system_energy(bs) ==
    LET k == KineticSum(bs, 1, Zero)
        p == PotentialSum(bs, 1, 2, Zero)
    IN  [kinetic |-> k, potential |-> p, total |-> Add(k, p),
         relative_error |-> Indeterminate]

\* the inner loop of the acceleration pass for body i
RECURSIVE AccelerationOf(_, _, _, _)
AccelerationOf(bs, i, j, acc) ==
    IF j > Len(bs) THEN acc
    ELSE IF ~bs[j].active THEN AccelerationOf(bs, i, j + 1, acc)
    ELSE AccelerationOf(bs, i, j + 1,
                        VAdd(acc, VDiv(calculate_force_from(bs, i, j), bs[i].mass)))

\* the acceleration pass of run_simulation_threaded
AccelerationPass(bs) ==
    [i \in 1..Len(bs) |->
        IF ~bs[i].active THEN bs[i]
        ELSE [bs[i] EXCEPT !.acceleration = AccelerationOf(bs, i, 1, VZero)]]

\* one evaluation of bodies[i].check_collision(bodies[j]) in the collision
\* pass, put in front of the record of the rest of the pass: whether
\* handle_collision was called, and the bodies whose flag the call cleared
Examined(bs, i, j, called, rest) ==
    LET after == IF called THEN handle_collision(bs, i, j) ELSE bs
    IN  [rest EXCEPT !.log =
            <<[i |-> i, j |-> j, called |-> called,
               cleared |-> {k \in 1..Len(bs) : bs[k].active /\ ~after[k].active}]>>
            \o @]

\* the collision pass, from the pair (i, j) on: the bodies and the count it
\* leaves, and the record of the pairs it has tested
RECURSIVE CollisionLoop(_, _, _, _)
CollisionLoop(bs, i, j, count) ==
    IF i > Len(bs) THEN [bodies |-> bs, count |-> count, log |-> << >>]
    ELSE IF j > Len(bs) THEN
        \* next i: the outer test of bodies[i].active
        IF i + 1 <= Len(bs) /\ ~bs[i + 1].active
        THEN CollisionLoop(bs, i + 1, Len(bs) + 1, count)
        ELSE CollisionLoop(bs, i + 1, i + 2, count)
    ELSE IF ~bs[j].active THEN CollisionLoop(bs, i, j + 1, count)
    ELSE IF check_collision(bs, i, j)
         THEN Examined(bs, i, j, TRUE,
                       CollisionLoop(handle_collision(bs, i, j), i, j + 1, count + 1))
         ELSE Examined(bs, i, j, FALSE, CollisionLoop(bs, i, j + 1, count))

CollisionPass(bs, count) ==
    IF ~config.enable_collision_detection \/ Len(bs) = 0
    THEN [bodies |-> bs, count |-> count, log |-> << >>]
    ELSE IF ~bs[1].active THEN CollisionLoop(bs, 1, Len(bs) + 1, count)
    ELSE CollisionLoop(bs, 1, 2, count)

\* the integration pass
IntegrationPass(bs, dt) == [i \in 1..Len(bs) |-> verlet_update(bs[i], dt)]

\* a faulty monitor, to set against EnergyMonitor: the energy is measured
\* in every iteration
EnergyMonitorEvery(bs, k, cur) ==
    IF config.enable_energy_monitoring
    THEN LET e == calculate_system_energy(bs)
         IN  [e EXCEPT !.relative_error =
                 Div(FAbs(Sub(e.total, initial_energy.total)),
                     FAbs(initial_energy.total))]
    ELSE cur

\* the energy monitor of an iteration
EnergyMonitor(bs, k, cur) ==
    IF config.enable_energy_monitoring /\ k % 100 = 0
    THEN LET e == calculate_system_energy(bs)
         IN  [e EXCEPT !.relative_error =
                 Div(FAbs(Sub(e.total, initial_energy.total)),
                     FAbs(initial_energy.total))]
    ELSE cur

----------------------------------------------------------------------------
(* nbody_simulation.cpp: the Euler variant *)

\* the smoothing distance 1e-10 of update_force, like Tiny below the
\* model's resolution
Smoothing == <<1, TinyDen>>

\* Body::Body of nbody_simulation.cpp
BasicBody(m, pos, vel, name) ==
    [mass |-> m, position |-> pos, velocity |-> vel, force |-> VZero, name |-> name]

\* Vector3::normalize of nbody_simulation.cpp
basic_normalize(u) ==
    LET mag == magnitude(u)
    IN  IF Lt(Zero, mag) THEN Vector3(Div(u.x, mag), Div(u.y, mag), Div(u.z, mag))
        ELSE u

\* Body::update_force: the loop over the other bodies
RECURSIVE ForceOf(_, _, _, _)
ForceOf(bs, i, j, force) ==
    IF j > Len(bs) THEN force
    ELSE IF j = i THEN ForceOf(bs, i, j + 1, force)
    ELSE LET direction == VSub(bs[j].position, bs[i].position)
             d0 == magnitude(direction)
             distance == IF Lt(d0, Smoothing) THEN Smoothing ELSE d0
             forceMagnitude == Div(Mul(Mul(G, bs[i].mass), bs[j].mass),
                                   Mul(distance, distance))
         IN  ForceOf(bs, i, j + 1,
                     VAdd(force, VScale(basic_normalize(direction), forceMagnitude)))

update_force(bs, i) == [bs[i] EXCEPT !.force = ForceOf(bs, i, 1, VZero)]

\* Body::update_position
update_position(b) ==
    LET acceleration == VScale(b.force, Div(One, b.mass))
        velocity == VAdd(b.velocity, VScale(acceleration, TIME_STEP))
    IN  [b EXCEPT !.velocity = velocity,
                  !.position = VAdd(b.position, VScale(velocity, TIME_STEP))]

----------------------------------------------------------------------------
(* The files the program writes and the visualizer reads *)

\* one row of nbody_realtime_data.csv as save_realtime_data writes it
\* (the digits of a value are not modelled: a row carries the values)
CsvRow(bs, energy, k, b) ==
    IF variant = "optimized"
    THEN [iteration |-> k, body_id |-> b - 1, name |-> bs[b].name,
          mass |-> bs[b].mass, radius |-> bs[b].radius,
          position |-> bs[b].position, velocity |-> bs[b].velocity,
          active |-> IF bs[b].active THEN 1 ELSE 0,
          kinetic_energy |-> kinetic_energy(bs[b]),
          total_system_energy |-> energy.total,
          energy_error |-> energy.relative_error]
    ELSE [body_id |-> b - 1, name |-> bs[b].name, mass |-> bs[b].mass,
          position |-> bs[b].position, velocity |-> bs[b].velocity]

CsvHeader == "header"

----------------------------------------------------------------------------
(* The step loop: run_simulation_threaded *)

\* every number of a body state lies within FitBound
NumFits(a) == IAbs(a[1]) <= FitBound /\ a[2] <= FitBound

VecFits(u) == NumFits(u.x) /\ NumFits(u.y) /\ NumFits(u.z)

Fits(bs) ==
    \A i \in 1..Len(bs) :
        /\ NumFits(bs[i].mass)
        /\ VecFits(bs[i].position)
        /\ VecFits(bs[i].velocity)
        /\ variant = "optimized" =>
              NumFits(bs[i].radius) /\ VecFits(bs[i].acceleration)

\* the loop body up to the integration pass as one function of the body
\* vector: the step, the acceleration pass, the collision pass and the
\* integration pass (the Euler variant: forces, then positions)
StepOf(bs) ==
    IF variant = "optimized"
    THEN IntegrationPass(CollisionPass(AccelerationPass(bs), 0).bodies,
                         calculate_adaptive_timestep(bs, TIME_STEP))
    ELSE [i \in 1..Len(bs) |-> update_position(update_force(bs, i))]

\* the body state and the one the iteration leaves lie within FitBound
Representable(bs) == Fits(bs) /\ Fits(StepOf(bs))

\* the phases of one iteration, in the order of the loop body
Phases ==
    IF variant = "optimized"
    THEN <<"dt", "accel", "collide", "integrate", "energy", "publish", "save">>
    ELSE <<"check", "forces", "positions", "publish", "save">>

\* a faulty sequencing, to set against PhaseAfter: the second and the third
\* phase change places
PhaseAfterSwapped(n) ==
    IF n = 1 THEN Phases[3]
    ELSE IF n = 3 THEN Phases[2]
    ELSE IF n = 2 THEN Phases[4]
    ELSE IF n < Len(Phases) THEN Phases[n + 1] ELSE "end"

\* the position after the phase at index n of the loop body
PhaseAfter(n) == IF n < Len(Phases) THEN Phases[n + 1] ELSE "end"

PhaseIndex(p) == CHOOSE n \in 1..Len(Phases) : Phases[n] = p

NextPhase(p) == PhaseAfter(PhaseIndex(p))

\* the sim thread leaves phase p
Advance(p) ==
    /\ pc' = NextPhase(p)
    /\ hist' = [hist EXCEPT !.phases = Append(@, p)]

\* a faulty loop test, to set against LoopCondition: the flag is not read
LoopConditionNoFlag == iteration < iterations

\* while (simulation_running && iteration < iterations)
LoopCondition == simulation_running /\ iteration < iterations

LoopTest ==
    /\ pc = "top"
    /\ IF LoopCondition
       THEN /\ Representable(bodies)
            /\ pc' = Phases[1]
            /\ hist' = [hist EXCEPT !.start = bodies, !.count0 = collision_count,
                                    !.phases = <<>>, !.log = << >>]
       ELSE /\ pc' = "done"
            /\ hist' = hist
    /\ UNCHANGED <<save_data, history, results,
                   variant, config, TIME_STEP, bodies, iterations, iteration,
                   adaptive_dt, collision_count, current_bodies, data_mutex,
                   simulation_running, initial_energy, current_energy, mpc,
                   save_b, csv, sentinel, launch_ok, displayed, csv_seen>>

\* the first statements of run_simulation_threaded, before the loop
SimStart ==
    /\ pc = "start"
    /\ current_bodies' = bodies
    /\ initial_energy' = IF variant = "optimized" THEN calculate_system_energy(bodies)
                         ELSE initial_energy
    /\ pc' = "top"
    /\ UNCHANGED <<save_data, history, results,
                   variant, config, TIME_STEP, bodies, iterations, iteration,
                   adaptive_dt, collision_count, data_mutex, simulation_running,
                   current_energy, mpc, save_b, csv, sentinel, launch_ok,
                   displayed, csv_seen, hist>>

ComputeDt ==
    /\ pc = "dt"
    /\ adaptive_dt' = calculate_adaptive_timestep(bodies, TIME_STEP)
    /\ Advance("dt")
    /\ UNCHANGED <<save_data, history, results,
                   variant, config, TIME_STEP, bodies, iterations, iteration,
                   collision_count, current_bodies, data_mutex,
                   simulation_running, initial_energy, current_energy, mpc,
                   save_b, csv, sentinel, launch_ok, displayed, csv_seen>>

Accelerate ==
    /\ pc = "accel"
    /\ bodies' = AccelerationPass(bodies)
    /\ Advance("accel")
    /\ UNCHANGED <<save_data, history, results,
                   variant, config, TIME_STEP, iterations, iteration,
                   adaptive_dt, collision_count, current_bodies, data_mutex,
                   simulation_running, initial_energy, current_energy, mpc,
                   save_b, csv, sentinel, launch_ok, displayed, csv_seen>>

Collide ==
    /\ pc = "collide"
    /\ LET r == CollisionPass(bodies, collision_count)
       IN  /\ bodies' = r.bodies
           /\ collision_count' = r.count
           /\ hist' = [hist EXCEPT !.phases = Append(@, "collide"), !.log = r.log]
    /\ pc' = NextPhase("collide")
    /\ UNCHANGED <<save_data, history, results,
                   variant, config, TIME_STEP, iterations, iteration,
                   adaptive_dt, current_bodies, data_mutex,
                   simulation_running, initial_energy, current_energy, mpc,
                   save_b, csv, sentinel, launch_ok, displayed, csv_seen>>

Integrate ==
    /\ pc = "integrate"
    /\ bodies' = IntegrationPass(bodies, adaptive_dt)
    /\ pc' = NextPhase("integrate")
    /\ hist' = [hist EXCEPT !.phases = Append(@, "integrate"),
                            !.snapshots = @ \cup {bodies'},
                            !.samples = IF iteration % 100 = 0
                                        THEN Append(@, bodies') ELSE @]
    /\ UNCHANGED <<save_data, history, results,
                   variant, config, TIME_STEP, iterations, iteration,
                   adaptive_dt, collision_count, current_bodies, data_mutex,
                   simulation_running, initial_energy, current_energy, mpc,
                   save_b, csv, sentinel, launch_ok, displayed, csv_seen>>

\* relative_error > config.energy_tolerance: the warning is printed
EnergyWarning(e) ==
    e.relative_error # Indeterminate /\ Lt(config.energy_tolerance, e.relative_error)

MonitorEnergy ==
    /\ pc = "energy"
    /\ current_energy' = EnergyMonitor(bodies, iteration, current_energy)
    /\ pc' = NextPhase("energy")
    /\ hist' = [hist EXCEPT !.phases = Append(@, "energy"),
                            !.warned = @ \/ (config.enable_energy_monitoring
                                             /\ iteration % 100 = 0
                                             /\ EnergyWarning(current_energy'))]
    /\ UNCHANGED <<save_data, history, results,
                   variant, config, TIME_STEP, bodies, iterations, iteration,
                   adaptive_dt, collision_count, current_bodies, data_mutex,
                   simulation_running, initial_energy, mpc, save_b, csv,
                   sentinel, launch_ok, displayed, csv_seen>>

\* if (check_shutdown_requested()) { simulation_running = false; break; }
CheckShutdown ==
    /\ pc = "check"
    /\ IF sentinel
       THEN /\ simulation_running' = FALSE
            /\ pc' = "done"
            /\ hist' = hist
       ELSE /\ simulation_running' = simulation_running
            /\ Advance("check")
    /\ UNCHANGED <<save_data, history, results,
                   variant, config, TIME_STEP, bodies, iterations, iteration,
                   adaptive_dt, collision_count, current_bodies, data_mutex,
                   initial_energy, current_energy, mpc, save_b, csv, sentinel,
                   launch_ok, displayed, csv_seen>>

\* for (auto& body : bodies) body.update_force(bodies)
UpdateForces ==
    /\ pc = "forces"
    /\ bodies' = [i \in 1..Len(bodies) |-> update_force(bodies, i)]
    /\ Advance("forces")
    /\ UNCHANGED <<save_data, history, results,
                   variant, config, TIME_STEP, iterations, iteration,
                   adaptive_dt, collision_count, current_bodies, data_mutex,
                   simulation_running, initial_energy, current_energy, mpc,
                   save_b, csv, sentinel, launch_ok, displayed, csv_seen>>

\* for (auto& body : bodies) body.update_position()
UpdatePositions ==
    /\ pc = "positions"
    /\ bodies' = [i \in 1..Len(bodies) |-> update_position(bodies[i])]
    /\ pc' = NextPhase("positions")
    /\ hist' = [hist EXCEPT !.phases = Append(@, "positions"),
                            !.snapshots = @ \cup {bodies'}]
    /\ UNCHANGED <<save_data, history, results,
                   variant, config, TIME_STEP, iterations, iteration,
                   adaptive_dt, collision_count, current_bodies, data_mutex,
                   simulation_running, initial_energy, current_energy, mpc,
                   save_b, csv, sentinel, launch_ok, displayed, csv_seen>>

\* std::lock_guard<std::mutex> lock(data_mutex)
PublishLock ==
    /\ pc = "publish"
    /\ data_mutex = "none"
    /\ data_mutex' = "sim"
    /\ pc' = "publish_copy"
    /\ UNCHANGED <<save_data, history, results,
                   variant, config, TIME_STEP, bodies, iterations, iteration,
                   adaptive_dt, collision_count, current_bodies,
                   simulation_running, initial_energy, current_energy, mpc,
                   save_b, csv, sentinel, launch_ok, displayed, csv_seen, hist>>

\* current_bodies = bodies
PublishCopy ==
    /\ pc = "publish_copy"
    /\ current_bodies' = bodies
    /\ pc' = "publish_unlock"
    /\ UNCHANGED <<save_data, history, results,
                   variant, config, TIME_STEP, bodies, iterations, iteration,
                   adaptive_dt, collision_count, data_mutex,
                   simulation_running, initial_energy, current_energy, mpc,
                   save_b, csv, sentinel, launch_ok, displayed, csv_seen, hist>>

\* the end of the lock_guard's scope, and data_cv.notify_one()
PublishUnlock ==
    /\ pc = "publish_unlock"
    /\ data_mutex' = "none"
    /\ Advance("publish")
    /\ UNCHANGED <<save_data, history, results,
                   variant, config, TIME_STEP, bodies, iterations, iteration,
                   adaptive_dt, collision_count, current_bodies,
                   simulation_running, initial_energy, current_energy, mpc,
                   save_b, csv, sentinel, launch_ok, displayed, csv_seen>>

\* a faulty continuation, to set against AfterSaveFailure: the loop is left
\* when the file cannot be opened
AfterSaveFailureStops == "done"

\* where the loop goes on when save_realtime_data returns early
AfterSaveFailure == NextPhase("save")

\* save_realtime_data: std::ofstream outfile(...) truncates the file; when
\* it cannot be opened the function returns
SaveOpen ==
    /\ pc = "save"
    /\ \E opened \in BOOLEAN :
          IF opened
          THEN /\ csv' = [exists |-> TRUE, rows |-> <<>>]
               /\ save_b' = 0
               /\ pc' = "save_rows"
               /\ hist' = hist
          ELSE /\ pc' = AfterSaveFailure
               /\ hist' = [hist EXCEPT !.phases = Append(@, "save"),
                                       !.save_failed = TRUE]
               /\ UNCHANGED <<csv, save_b>>
    /\ UNCHANGED <<save_data, history, results,
                   variant, config, TIME_STEP, bodies, iterations, iteration,
                   adaptive_dt, collision_count, current_bodies, data_mutex,
                   simulation_running, initial_energy, current_energy, mpc,
                   sentinel, launch_ok, displayed, csv_seen>>

\* save_realtime_data: the header, then one row per body, each flushed by
\* std::endl; after the last one the file is closed
SaveWrite ==
    /\ pc = "save_rows"
    /\ csv' = [csv EXCEPT !.rows =
                  IF save_b = 0 THEN <<CsvHeader>>
                  ELSE Append(@, CsvRow(bodies, current_energy, iteration, save_b))]
    /\ save_b' = save_b + 1
    /\ IF save_b >= Len(bodies)
       THEN Advance("save")
       ELSE UNCHANGED <<pc, hist>>
    /\ UNCHANGED <<save_data, history, results,
                   variant, config, TIME_STEP, bodies, iterations, iteration,
                   adaptive_dt, collision_count, current_bodies, data_mutex,
                   simulation_running, initial_energy, current_energy, mpc,
                   sentinel, launch_ok, displayed, csv_seen>>

\* the progress line, the sleep and iteration++
EndIteration ==
    /\ pc = "end"
    /\ iteration' = iteration + 1
    /\ pc' = "top"
    /\ UNCHANGED <<save_data, history, results,
                   variant, config, TIME_STEP, bodies, iterations,
                   adaptive_dt, collision_count, current_bodies, data_mutex,
                   simulation_running, initial_energy, current_energy, mpc,
                   save_b, csv, sentinel, launch_ok, displayed, csv_seen, hist>>

----------------------------------------------------------------------------
(* main *)

\* launch_visualization(): it may fail; main goes on either way
MainLaunch ==
    /\ mpc = "launch"
    /\ \E result \in {"ok", "failed"} : launch_ok' = result
    /\ mpc' = "spawn"
    /\ UNCHANGED <<save_data, history, results,
                   variant, config, TIME_STEP, bodies, iterations, iteration,
                   adaptive_dt, collision_count, current_bodies, data_mutex,
                   simulation_running, initial_energy, current_energy, pc,
                   save_b, csv, sentinel, displayed, csv_seen, hist>>

\* std::thread sim_thread(run_simulation_threaded, bodies, NUM_ITERATIONS)
MainSpawn ==
    /\ mpc = "spawn"
    /\ pc = "idle"
    /\ pc' = "start"
    /\ mpc' = "wait_enter"
    /\ UNCHANGED <<save_data, history, results,
                   variant, config, TIME_STEP, bodies, iterations, iteration,
                   adaptive_dt, collision_count, current_bodies, data_mutex,
                   simulation_running, initial_energy, current_energy,
                   save_b, csv, sentinel, launch_ok, displayed, csv_seen, hist>>

\* std::cin.get() returns; simulation_running = false
MainStop ==
    /\ mpc = "wait_enter"
    /\ simulation_running' = FALSE
    /\ mpc' = "join"
    /\ hist' = [hist EXCEPT !.stop_iter = IF @ < 0 THEN iteration ELSE @]
    /\ UNCHANGED <<save_data, history, results,
                   variant, config, TIME_STEP, bodies, iterations, iteration,
                   adaptive_dt, collision_count, current_bodies, data_mutex,
                   initial_energy, current_energy, pc, save_b, csv, sentinel,
                   launch_ok, displayed, csv_seen>>

\* sim_thread.join()
MainJoin ==
    /\ mpc = "join"
    /\ pc = "done"
    /\ mpc' = "final_lock"
    /\ UNCHANGED <<save_data, history, results,
                   variant, config, TIME_STEP, bodies, iterations, iteration,
                   adaptive_dt, collision_count, current_bodies, data_mutex,
                   simulation_running, initial_energy, current_energy, pc,
                   save_b, csv, sentinel, launch_ok, displayed, csv_seen, hist>>

\* std::lock_guard<std::mutex> lock(data_mutex) of the final display
MainLock ==
    /\ mpc = "final_lock"
    /\ data_mutex = "none"
    /\ data_mutex' = "main"
    /\ mpc' = "display"
    /\ UNCHANGED <<save_data, history, results,
                   variant, config, TIME_STEP, bodies, iterations, iteration,
                   adaptive_dt, collision_count, current_bodies,
                   simulation_running, initial_energy, current_energy, pc,
                   save_b, csv, sentinel, launch_ok, displayed, csv_seen, hist>>

\* display_system_state(current_bodies)
MainDisplay ==
    /\ mpc = "display"
    /\ displayed' = [shown |-> TRUE, bodies |-> current_bodies]
    /\ mpc' = "final_unlock"
    /\ UNCHANGED <<save_data, history, results,
                   variant, config, TIME_STEP, bodies, iterations, iteration,
                   adaptive_dt, collision_count, current_bodies, data_mutex,
                   simulation_running, initial_energy, current_energy, pc,
                   save_b, csv, sentinel, launch_ok, csv_seen, hist>>

\* the end of the lock_guard's scope; return 0
MainUnlock ==
    /\ mpc = "final_unlock"
    /\ data_mutex' = "none"
    /\ mpc' = "exit"
    /\ UNCHANGED <<save_data, history, results,
                   variant, config, TIME_STEP, bodies, iterations, iteration,
                   adaptive_dt, collision_count, current_bodies,
                   simulation_running, initial_energy, current_energy, pc,
                   save_b, csv, sentinel, launch_ok, displayed, csv_seen, hist>>

----------------------------------------------------------------------------
(* The external visualizer (realtime_visualize.py), another process *)

\* it reads nbody_realtime_data.csv whenever it likes
VisRead ==
    /\ csv.exists
    /\ ~csv_seen.read
    /\ csv_seen' = [read |-> TRUE, rows |-> csv.rows]
    /\ UNCHANGED <<save_data, history, results,
                   variant, config, TIME_STEP, bodies, iterations, iteration,
                   adaptive_dt, collision_count, current_bodies, data_mutex,
                   simulation_running, initial_energy, current_energy, pc, mpc,
                   save_b, csv, sentinel, launch_ok, displayed, hist>>

\* its window is closed: shutdown_signal.txt appears (only the Euler
\* variant ever opens that file)
VisClose ==
    /\ variant = "basic"
    /\ ~sentinel
    /\ sentinel' = TRUE
    /\ hist' = [hist EXCEPT !.stop_iter = IF @ < 0 THEN iteration ELSE @]
    /\ UNCHANGED <<save_data, history, results,
                   variant, config, TIME_STEP, bodies, iterations, iteration,
                   adaptive_dt, collision_count, current_bodies, data_mutex,
                   simulation_running, initial_energy, current_energy, pc, mpc,
                   save_b, csv, launch_ok, displayed, csv_seen>>

----------------------------------------------------------------------------
(* Initial states *)

\* a body on the x axis, moving along it, as Body::Body builds it
OnAxis(m, x, v, name, r) ==
    Body(Q(m, 1), Vector3(Q(x, 1), Zero, Zero), Vector3(Q(v, 1), Zero, Zero),
         <<name>>, Q(r, 1))

\* a body that an earlier merge has absorbed: its flag is cleared and it
\* keeps the acceleration it last had
Absorbed(b) ==
    [b EXCEPT !.active = FALSE, !.acceleration = Vector3(Q(-1, 5), Zero, Zero)]

BasicOnAxis(m, x, v, name) ==
    BasicBody(Q(m, 1), Vector3(Q(x, 1), Zero, Zero), Vector3(Q(v, 1), Zero, Zero),
              <<name>>)

\* struct SimulationConfig with its default factor and tolerance
Config(adaptive, collisions, monitoring) ==
    [use_adaptive_timestep |-> adaptive,
     enable_collision_detection |-> collisions,
     collision_distance_factor |-> <<2, 1>>,
     energy_tolerance |-> <<1, 1000000>>,
     enable_energy_monitoring |-> monitoring]

Configs == {Config(a, c, m) : a \in BOOLEAN, c \in BOOLEAN, m \in BOOLEAN}

\* the body sets of the runs: one body; a close pair (it merges when
\* collisions are detected), the heavier body first or second; a pair too
\* far apart to merge; three bodies; a close pair with an absorbed body
\* between them; two absorbed bodies; the empty set
BodySets ==
    { <<OnAxis(2, 0, 1, "A", 10)>>,
      <<OnAxis(2, 0, 0, "A", 10), OnAxis(1, 3, 0, "B", 10)>>,
      <<OnAxis(10, 0, 1, "A", 10), OnAxis(20, 3, -1, "B", 10)>>,
      <<OnAxis(442, 0, 0, "A", 10),
        Body(Q(442, 1), Vector3(Q(21, 1), Zero, Zero), VZero, <<"B">>, Q(1, 10))>>,
      <<OnAxis(10, 0, 0, "A", 10), OnAxis(20, 1, 0, "B", 10), OnAxis(10, 3, 0, "C", 10)>>,
      <<OnAxis(2, 0, 0, "A", 10), Absorbed(OnAxis(1, 1, 5, "B", 10)),
        OnAxis(1, 3, 0, "C", 10)>>,
      <<Absorbed(OnAxis(2, 0, 1, "A", 10)), Absorbed(OnAxis(1, 3, -1, "B", 10))>>,
      << >> }

BasicBodySets ==
    { <<BasicOnAxis(2, 0, 1, "A")>>,
      <<BasicOnAxis(2, 0, 0, "A"), BasicOnAxis(1, 3, 0, "B")>> }

\* a zero-initialised global EnergyInfo
EnergyZero == [kinetic |-> Zero, potential |-> Zero, total |-> Zero,
               relative_error |-> Zero]

\* what is remembered of a run that starts from the body vector bs: the
\* initial vector and the one the iteration began with, the phases and the
\* tested pairs of the iteration, every vector an integration pass has
\* left, the ones left at the iterations 0, 100, 200, ... in order, and
\* what has happened to the run
HistInit(bs) ==
    [start |-> bs, initial |-> bs, count0 |-> 0, phases |-> << >>,
     snapshots |-> {bs}, stop_iter |-> -1, save_failed |-> FALSE,
     warned |-> FALSE, log |-> << >>, samples |-> << >>]

\* the state when main is about to launch the visualizer: the globals as
\* their initialisers leave them, the configuration and the bodies chosen
InitWith(optimizedSets, basicSets, configs) ==
    /\ variant \in {"optimized", "basic"}
    /\ config \in (IF variant = "optimized" THEN configs
                   ELSE {Config(TRUE, TRUE, TRUE)})
    /\ TIME_STEP = One
    /\ bodies \in (IF variant = "optimized" THEN optimizedSets ELSE basicSets)
    /\ iterations \in 0..MaxIter
    /\ iteration = 0
    /\ adaptive_dt = TIME_STEP
    /\ collision_count = 0
    /\ current_bodies = << >>
    /\ data_mutex = "none"
    /\ simulation_running = TRUE
    /\ initial_energy = EnergyZero
    /\ current_energy = EnergyZero
    /\ pc = "idle"
    /\ mpc = "launch"
    /\ save_b = 0
    /\ csv = [exists |-> FALSE, rows |-> << >>]
    /\ sentinel = FALSE
    /\ launch_ok = "pending"
    /\ displayed = [shown |-> FALSE, bodies |-> << >>]
    /\ csv_seen = [read |-> FALSE, rows |-> << >>]
    /\ save_data = FALSE
    /\ history = << >>
    /\ results = [exists |-> FALSE, rows |-> << >>]
    /\ hist = HistInit(bodies)

Init == InitWith(BodySets, BasicBodySets, Configs)

Next ==
    \/ SimStart
    \/ LoopTest
    \/ ComputeDt
    \/ Accelerate
    \/ Collide
    \/ Integrate
    \/ MonitorEnergy
    \/ CheckShutdown
    \/ UpdateForces
    \/ UpdatePositions
    \/ PublishLock
    \/ PublishCopy
    \/ PublishUnlock
    \/ SaveOpen
    \/ SaveWrite
    \/ EndIteration
    \/ MainLaunch
    \/ MainSpawn
    \/ MainStop
    \/ MainJoin
    \/ MainLock
    \/ MainDisplay
    \/ MainUnlock
    \/ VisRead
    \/ VisClose

Spec == Init /\ [][Next]_vars

\* body sets holding a body of mass zero, which Body::Body accepts: alone,
\* with a radius given or estimated, and next to an ordinary body
InvalidBodySets ==
    { <<OnAxis(0, 0, 1, "Z", 10)>>,
      <<Body(Zero, VZero, VZero, <<"Z">>, Zero)>>,
      <<OnAxis(2, 0, 0, "A", 1), OnAxis(0, 3, 0, "Z", 1)>> }

InvalidBasicBodySets ==
    { <<BasicOnAxis(0, 0, 1, "Z")>>,
      <<BasicOnAxis(2, 0, 0, "A"), BasicOnAxis(0, 3, 0, "Z")>> }

InvalidInit ==
    InitWith(InvalidBodySets, InvalidBasicBodySets,
             {Config(a, c, TRUE) : a \in BOOLEAN, c \in BOOLEAN})

\* the runs that start from a body set with a zero-mass body
SpecInvalid == InvalidInit /\ [][Next]_vars

\* calculate_adaptive_timestep on its own: the accelerations and radii a
\* body may hold, special values included
DtAccelerations == {Zero, <<1, 10>>, <<40, 1>>, <<-40000, 1>>, PosInf, NaN}

DtRadii == {<<10, 1>>, Zero, <<-10, 1>>, PosInf, NaN}

DtBody(a, r, active) ==
    [Body(One, VZero, VZero, <<"D">>, One)
        EXCEPT !.acceleration = Vector3(a, Zero, Zero), !.radius = r,
               !.active = active]

DtBodies ==
    {DtBody(a, r, TRUE) : a \in DtAccelerations, r \in DtRadii}
        \cup {DtBody(<<-40000, 1>>, Zero, FALSE), DtBody(NaN, NaN, FALSE)}

DtBodySets ==
    UNION {[1..n -> DtBodies] : n \in 0..MaxDtBodies}

\* the arguments of the call: a body vector and a positive base step
DtInit ==
    /\ variant = "optimized"
    /\ config \in {Config(a, TRUE, TRUE) : a \in BOOLEAN}
    /\ TIME_STEP \in {One, <<1, 2>>, <<100, 1>>}
    /\ bodies \in DtBodySets
    /\ iterations = 0
    /\ iteration = 0
    /\ adaptive_dt = TIME_STEP
    /\ collision_count = 0
    /\ current_bodies = << >>
    /\ data_mutex = "none"
    /\ simulation_running = TRUE
    /\ initial_energy = EnergyZero
    /\ current_energy = EnergyZero
    /\ pc = "dt_input"
    /\ mpc = "launch"
    /\ save_b = 0
    /\ csv = [exists |-> FALSE, rows |-> << >>]
    /\ sentinel = FALSE
    /\ launch_ok = "pending"
    /\ displayed = [shown |-> FALSE, bodies |-> << >>]
    /\ csv_seen = [read |-> FALSE, rows |-> << >>]
    /\ save_data = FALSE
    /\ history = << >>
    /\ results = [exists |-> FALSE, rows |-> << >>]
    /\ hist = HistInit(bodies)

\* adaptive_dt = calculate_adaptive_timestep(bodies, TIME_STEP)
DtApply ==
    /\ pc = "dt_input"
    /\ adaptive_dt' = calculate_adaptive_timestep(bodies, TIME_STEP)
    /\ pc' = "dt_output"
    /\ UNCHANGED <<save_data, history, results,
                   variant, config, TIME_STEP, bodies, iterations, iteration,
                   collision_count, current_bodies, data_mutex,
                   simulation_running, initial_energy, current_energy, mpc,
                   save_b, csv, sentinel, launch_ok, displayed, csv_seen, hist>>

SpecDt == DtInit /\ [][DtApply]_vars

\* the collision pass on its own: three bodies on the x axis, of radius 10,
\* the first two one apart and the third near them, at the edge of their
\* reach or out of it; each of either mass, active or absorbed
CollideMasses == {1, 2}

CollidePositions == {3, 41, 50}

CollideBody(m, x, v, name, active) ==
    IF active THEN OnAxis(m, x, v, name, 10)
    ELSE Absorbed(OnAxis(m, x, v, name, 10))

CollideBodySets ==
    { <<CollideBody(ma, 0, 1, "A", fa), CollideBody(mb, 1, -1, "B", fb),
        CollideBody(mc, x, 0, "C", fc)>> :
        ma \in CollideMasses, mb \in CollideMasses, mc \in CollideMasses,
        x \in CollidePositions,
        fa \in BOOLEAN, fb \in BOOLEAN, fc \in BOOLEAN }

\* the state in which the collision pass of an iteration begins
CollideInit ==
    /\ variant = "optimized"
    /\ config \in {Config(TRUE, c, TRUE) : c \in BOOLEAN}
    /\ TIME_STEP = One
    /\ bodies \in CollideBodySets
    /\ iterations = 1
    /\ iteration = 0
    /\ adaptive_dt = TIME_STEP
    /\ collision_count = 0
    /\ current_bodies = bodies
    /\ data_mutex = "none"
    /\ simulation_running = TRUE
    /\ initial_energy = EnergyZero
    /\ current_energy = EnergyZero
    /\ pc = "collide_input"
    /\ mpc = "wait_enter"
    /\ save_b = 0
    /\ csv = [exists |-> FALSE, rows |-> << >>]
    /\ sentinel = FALSE
    /\ launch_ok = "ok"
    /\ displayed = [shown |-> FALSE, bodies |-> << >>]
    /\ csv_seen = [read |-> FALSE, rows |-> << >>]
    /\ save_data = FALSE
    /\ history = << >>
    /\ results = [exists |-> FALSE, rows |-> << >>]
    /\ hist = HistInit(bodies)

\* the collision pass of run_simulation_threaded
CollideApply ==
    /\ pc = "collide_input"
    /\ LET r == CollisionPass(bodies, collision_count)
       IN  /\ bodies' = r.bodies
           /\ collision_count' = r.count
           /\ hist' = [hist EXCEPT !.log = r.log]
    /\ pc' = "collide_output"
    /\ UNCHANGED <<save_data, history, results,
                   variant, config, TIME_STEP, iterations, iteration,
                   adaptive_dt, current_bodies, data_mutex,
                   simulation_running, initial_energy, current_energy, mpc,
                   save_b, csv, sentinel, launch_ok, displayed, csv_seen>>

SpecCollide == CollideInit /\ [][CollideApply]_vars

\* the number of iterations of the long runs: the iterations 0 to 100 and
\* one more
LongIter == 102

\* a long run of the simulation thread: main has started it and waits for
\* Enter; a close pair that merges in iteration 0, after which the survivor
\* drifts; energy monitoring is enabled
LongInit ==
    /\ variant = "optimized"
    /\ config = Config(FALSE, TRUE, TRUE)
    /\ TIME_STEP = One
    /\ bodies = <<OnAxis(2, 0, 0, "A", 10), OnAxis(1, 3, 0, "B", 10)>>
    /\ iterations = LongIter
    /\ iteration = 0
    /\ adaptive_dt = TIME_STEP
    /\ collision_count = 0
    /\ current_bodies = << >>
    /\ data_mutex = "none"
    /\ simulation_running = TRUE
    /\ initial_energy = EnergyZero
    /\ current_energy = EnergyZero
    /\ pc = "start"
    /\ mpc = "wait_enter"
    /\ save_b = 0
    /\ csv = [exists |-> FALSE, rows |-> << >>]
    /\ sentinel = FALSE
    /\ launch_ok = "ok"
    /\ displayed = [shown |-> FALSE, bodies |-> << >>]
    /\ csv_seen = [read |-> FALSE, rows |-> << >>]
    /\ save_data = FALSE
    /\ history = << >>
    /\ results = [exists |-> FALSE, rows |-> << >>]
    /\ hist = HistInit(bodies)

\* the steps of run_simulation_threaded of nbody_simulation_optimized.cpp
LongNext ==
    \/ SimStart
    \/ LoopTest
    \/ ComputeDt
    \/ Accelerate
    \/ Collide
    \/ Integrate
    \/ MonitorEnergy
    \/ PublishLock
    \/ PublishCopy
    \/ PublishUnlock
    \/ SaveOpen
    \/ SaveWrite
    \/ EndIteration

SpecLong == LongInit /\ [][LongNext]_vars

\* the number of iterations of the runs of run_simulation goes up to this
HistoryIter == 12

\* run_simulation of nbody_simulation.cpp is about to be called: a body
\* that drifts, one at rest, or none
HistoryInit ==
    /\ variant = "basic"
    /\ config = Config(TRUE, TRUE, TRUE)
    /\ TIME_STEP = One
    /\ bodies \in { <<BasicOnAxis(2, 0, 1, "A")>>, <<BasicOnAxis(1, 3, 0, "B")>>,
                     << >> }
    /\ iterations \in 0..HistoryIter
    /\ iteration = 0
    /\ adaptive_dt = TIME_STEP
    /\ collision_count = 0
    /\ current_bodies = << >>
    /\ data_mutex = "none"
    /\ simulation_running = TRUE
    /\ initial_energy = EnergyZero
    /\ current_energy = EnergyZero
    /\ pc = "run_start"
    /\ mpc = "launch"
    /\ save_b = 0
    /\ csv = [exists |-> FALSE, rows |-> << >>]
    /\ sentinel = FALSE
    /\ launch_ok = "pending"
    /\ displayed = [shown |-> FALSE, bodies |-> << >>]
    /\ csv_seen = [read |-> FALSE, rows |-> << >>]
    /\ save_data \in BOOLEAN
    /\ history = << >>
    /\ results = [exists |-> FALSE, rows |-> << >>]
    /\ hist = HistInit(bodies)

\* run_simulation: if (save_data) history.push_back(bodies)
RunStart ==
    /\ pc = "run_start"
    /\ history' = IF save_data THEN <<bodies>> ELSE << >>
    /\ pc' = "run_loop"
    /\ UNCHANGED <<save_data, results, variant, config, TIME_STEP, bodies,
                   iterations, iteration, adaptive_dt, collision_count,
                   current_bodies, data_mutex, simulation_running,
                   initial_energy, current_energy, mpc, save_b, csv, sentinel,
                   launch_ok, displayed, csv_seen, hist>>

\* one pass of the body of run_simulation's loop over all the bodies:
\* update_force, then update_position
EulerStep(bs) ==
    LET forced == [i \in 1..Len(bs) |-> update_force(bs, i)]
    IN  [i \in 1..Len(bs) |-> update_position(forced[i])]

\* run_simulation: one iteration of for (int i = 0; i < iterations; i++)
RunIteration ==
    /\ pc = "run_loop"
    /\ iteration < iterations
    /\ bodies' = EulerStep(bodies)
    /\ history' = IF save_data /\ (iteration % 10 = 0 \/ iteration = iterations - 1)
                  THEN Append(history, bodies')
                  ELSE history
    /\ iteration' = iteration + 1
    /\ UNCHANGED <<save_data, results, variant, config, TIME_STEP, iterations,
                   adaptive_dt, collision_count, current_bodies, data_mutex,
                   simulation_running, initial_energy, current_energy, pc, mpc,
                   save_b, csv, sentinel, launch_ok, displayed, csv_seen, hist>>

\* run_simulation: the loop is left
RunLoopExit ==
    /\ pc = "run_loop"
    /\ iteration >= iterations
    /\ pc' = IF save_data THEN "run_save" ELSE "run_done"
    /\ UNCHANGED <<save_data, history, results, variant, config, TIME_STEP,
                   bodies, iterations, iteration, adaptive_dt, collision_count,
                   current_bodies, data_mutex, simulation_running,
                   initial_energy, current_energy, mpc, save_b, csv, sentinel,
                   launch_ok, displayed, csv_seen, hist>>

\* one row of nbody_simulation_results.csv
HistoryRow(h, iter, b) ==
    [iteration |-> iter - 1, body_id |-> b - 1, name |-> h[iter][b].name,
     mass |-> h[iter][b].mass, position |-> h[iter][b].position,
     velocity |-> h[iter][b].velocity]

\* the rows of history[iter] and of the entries after it, in the order
\* save_simulation_data writes them
RECURSIVE HistoryRows(_, _)
HistoryRows(h, iter) ==
    IF iter > Len(h) THEN << >>
    ELSE [b \in 1..Len(h[iter]) |-> HistoryRow(h, iter, b)] \o HistoryRows(h, iter + 1)

\* save_simulation_data(history, "nbody_simulation_results.csv"): when the
\* file cannot be opened the function returns
SaveHistory ==
    /\ pc = "run_save"
    /\ \E opened \in BOOLEAN :
          results' = IF opened
                     THEN [exists |-> TRUE, rows |-> <<CsvHeader>> \o HistoryRows(history, 1)]
                     ELSE results
    /\ pc' = "run_done"
    /\ UNCHANGED <<save_data, history, variant, config, TIME_STEP, bodies,
                   iterations, iteration, adaptive_dt, collision_count,
                   current_bodies, data_mutex, simulation_running,
                   initial_energy, current_energy, mpc, save_b, csv, sentinel,
                   launch_ok, displayed, csv_seen, hist>>

HistoryNext == RunStart \/ RunIteration \/ RunLoopExit \/ SaveHistory

SpecHistory == HistoryInit /\ [][HistoryNext]_vars

\* body sets whose total energy is zero: one body at rest, and two bodies
\* of mass 1, one apart, whose kinetic energy 1/2 + 1/2 equals G * 1 * 1 / 1
RestBodySets ==
    { <<OnAxis(2, 0, 0, "A", 10)>>,
      <<OnAxis(1, 0, 1, "A", 10), OnAxis(1, 1, 1, "B", 10)>> }

RestInit ==
    InitWith(RestBodySets, { <<BasicOnAxis(2, 0, 0, "A")>> },
             {Config(a, c, TRUE) : a \in BOOLEAN, c \in BOOLEAN})

\* the runs that start from a body set of total energy zero
SpecRest == RestInit /\ [][Next]_vars

\* the steps of the simulation thread
SimThread ==
    \/ SimStart \/ LoopTest \/ ComputeDt \/ Accelerate \/ Collide \/ Integrate
    \/ MonitorEnergy \/ CheckShutdown \/ UpdateForces \/ UpdatePositions
    \/ PublishLock \/ PublishCopy \/ PublishUnlock \/ SaveOpen \/ SaveWrite
    \/ EndIteration

\* runs whose body states stay small for ever: one body, and a close pair
\* that merges in the first iteration
FairInit ==
    InitWith({ <<OnAxis(2, 0, 1, "A", 10)>>,
               <<OnAxis(2, 0, 0, "A", 10), OnAxis(1, 3, 0, "B", 10)>> },
             { <<BasicOnAxis(2, 0, 1, "A")>> },
             {Config(FALSE, TRUE, TRUE)})

\* the simulation thread has no step to take: it is not started or has
\* returned, it waits for data_mutex, or the run has left the bounds
SimIdle ==
    \/ pc \in {"idle", "done"}
    \/ (pc = "publish" /\ data_mutex # "none")
    \/ (pc = "top" /\ LoopCondition /\ ~Representable(bodies))

\* the runs in which a started std::thread keeps being scheduled and main
\* runs its straight-line code up to std::cin.get(); when, and whether, the
\* user presses Enter or closes the visualizer is left open.  The second
\* conjunct is WF_vars(SimThread) with ENABLED <<SimThread>>_vars written
\* out as the state predicate ~SimIdle.
FairSpec ==
    /\ FairInit
    /\ [][Next]_vars
    /\ ([]<>SimIdle \/ []<><<SimThread>>_vars)
    /\ WF_vars(MainLaunch)
    /\ WF_vars(MainSpawn)

----------------------------------------------------------------------------
(* Observations the properties are stated with *)

Active(bs) == {i \in 1..Len(bs) : bs[i].active}

\* the sum of the masses of the active bodies, from index i on
RECURSIVE ActiveMassFrom(_, _)
ActiveMassFrom(bs, i) ==
    IF i > Len(bs) THEN Zero
    ELSE Add(IF bs[i].active THEN bs[i].mass ELSE Zero, ActiveMassFrom(bs, i + 1))

ActiveMass(bs) == ActiveMassFrom(bs, 1)

\* the sum of mass times velocity of the active bodies, from index i on
RECURSIVE MomentumFrom(_, _)
MomentumFrom(bs, i) ==
    IF i > Len(bs) THEN VZero
    ELSE VAdd(IF bs[i].active THEN VScale(bs[i].velocity, bs[i].mass) ELSE VZero,
              MomentumFrom(bs, i + 1))

Momentum(bs) == MomentumFrom(bs, 1)

----------------------------------------------------------------------------
(* C1 *)

\* C1 (merge mass conservation): handle_collision applied to two active
\* bodies of mass m1 and m2 leaves exactly one of them active, with mass
\* m1 + m2, and the active bodies' masses sum, after any sequence of steps,
\* to what they summed to in the initial body set.
C1_MergeMassConservation ==
    variant = "optimized" =>
        /\ ActiveMass(bodies) = ActiveMass(hist.initial)
        /\ \A i \in Active(bodies) : \A j \in Active(bodies) :
              i < j =>
                LET merged == handle_collision(bodies, i, j)
                    m == Add(bodies[i].mass, bodies[j].mass)
                IN  /\ merged[i].active # merged[j].active
                    /\ merged[i].active => merged[i].mass = m
                    /\ merged[j].active => merged[j].mass = m
                    /\ \A k \in 1..Len(bodies) : k \notin {i, j} => merged[k] = bodies[k]

\* two merges have happened in one run and one body is left active
C1_Witness ==
    /\ variant = "optimized"
    /\ collision_count >= 2
    /\ Cardinality(Active(bodies)) = 1
    /\ Len(bodies) = 3

----------------------------------------------------------------------------
(* C2 *)

\* C2 (momentum conservation): in every iteration of the step loop in which
\* no collision is resolved, iterations that follow an earlier merge
\* included, the sum of mass times velocity over the active bodies is the
\* same after the integration pass as it was when the iteration began.
C2_MomentumConserved ==
    (variant = "optimized" /\ pc = "energy" /\ collision_count = hist.count0)
        => Momentum(bodies) = Momentum(hist.start)

----------------------------------------------------------------------------
(* C3 *)

\* the rows c are the whole file save_realtime_data writes for the body
\* vector s
CsvComplete(c, s) ==
    /\ Len(c) = Len(s) + 1
    /\ c[1] = CsvHeader
    /\ \A b \in 1..Len(s) :
          /\ c[b + 1].name = s[b].name
          /\ c[b + 1].mass = s[b].mass
          /\ c[b + 1].position = s[b].position
          /\ c[b + 1].velocity = s[b].velocity

\* C3 (snapshot consistency): whatever a reader observes, the shared
\* current_bodies that main displays and the current-state CSV that the
\* visualizer reads, is a complete copy of the body set as it was at the end
\* of a finished iteration or of the initial set, under any interleaving.
C3_SnapshotConsistency ==
    /\ displayed.shown => displayed.bodies \in hist.snapshots
    /\ csv_seen.read => \E s \in hist.snapshots : CsvComplete(csv_seen.rows, s)

----------------------------------------------------------------------------
(* C4 *)

\* the flag has been cleared, or (Euler variant) the sentinel file exists
StopRequested == ~simulation_running \/ (variant = "basic" /\ sentinel)

\* the positions of the simulation thread inside the body of an iteration,
\* after the stop request has been examined
InIteration ==
    pc \in {"dt", "accel", "collide", "integrate", "energy", "forces", "positions",
            "publish", "publish_copy", "publish_unlock", "save", "save_rows"}

\* the phases an iteration has run when it reaches its end
FullIteration ==
    IF variant = "optimized"
    THEN <<"dt", "accel", "collide", "integrate", "energy", "publish", "save">>
    ELSE <<"check", "forces", "positions", "publish", "save">>

\* C4 (cooperative cancellation): the stop request is examined only at the
\* top of an iteration: at the loop test for the flag and at the sentinel
\* check that opens the Euler variant's loop body.  Once the flag is false or
\* the sentinel exists, the iteration in progress runs all its phases, no
\* further iteration is started, and the loop reaches Stopped after at most
\* that one iteration.
C4_CooperativeCancellation ==
    /\ [][(pc = "top" /\ ~simulation_running) => pc' \in {"top", "done"}]_vars
    /\ [][(pc = "check" /\ sentinel) => pc' \in {"check", "done"}]_vars
    /\ [][InIteration => pc' # "done"]_vars
    /\ [](pc = "end" => hist.phases = FullIteration)
    /\ []((hist.stop_iter >= 0 /\ InIteration) => iteration = hist.stop_iter)
    /\ [](hist.stop_iter >= 0 => iteration <= hist.stop_iter + 1)
    /\ (StopRequested ~> pc = "done")

\* the flag is cleared, or the sentinel appears, while an iteration is
\* between its acceleration and its integration
C4_Witness ==
    /\ StopRequested
    /\ pc \in {"collide", "integrate", "positions"}
    /\ iteration + 1 < iterations

----------------------------------------------------------------------------
(* C5 *)

\* C5 (stop causes): the step loop leaves Running only because the flag was
\* cleared, the sentinel was observed or the iteration counter reached its
\* bound; an energy error above the tolerance, a failure to open the
\* snapshot file and a failed visualization launch do not stop it; once
\* Stopped, the loop runs no further iteration.
C5_StopCauses ==
    /\ [][(pc # "done" /\ pc' = "done")
            => \/ ~simulation_running
               \/ (variant = "basic" /\ sentinel)
               \/ iteration >= iterations]_vars
    /\ [][pc = "energy" => pc' \in {"energy", "publish"}]_vars
    /\ [][pc = "save" => pc' \in {"save", "save_rows", "end"}]_vars
    /\ []((launch_ok = "failed" /\ mpc \notin {"launch", "spawn"}) => pc # "idle")
    /\ [][pc = "done" => (pc' = "done" /\ iteration' = iteration /\ bodies' = bodies)]_vars

\* the launch failed, the energy warning was printed and the snapshot file
\* could not be opened, and the loop is in the middle of its next iteration
C5_Witness ==
    /\ launch_ok = "failed"
    /\ hist.warned
    /\ hist.save_failed
    /\ simulation_running
    /\ iteration = 1
    /\ pc = "integrate"

----------------------------------------------------------------------------
(* C6 *)

\* C6 (invalid-body guard): a body of mass zero is treated as inert by the
\* step loop, so that no acceleration or integration step divides by its
\* mass and no non-finite value enters the acceleration, velocity or
\* position of any body.
C6_NoNonFiniteValue ==
    \A i \in 1..Len(bodies) :
        /\ VFinite(bodies[i].position)
        /\ VFinite(bodies[i].velocity)
        /\ variant = "optimized" => VFinite(bodies[i].acceleration)

----------------------------------------------------------------------------
(* C7 *)

\* C7 (adaptive step bound): for any body set, active or not and whatever
\* the accelerations and radii, and any positive base step,
\* calculate_adaptive_timestep returns a value in [0.01 * base, base], so
\* the dt of every integration pass lies in that interval; with adaptive
\* stepping disabled it returns the base step.
C7_AdaptiveStepBound ==
    pc \in {"dt_output", "accel", "collide", "integrate"} =>
        /\ Le(Mul(<<1, 100>>, TIME_STEP), adaptive_dt)
        /\ Le(adaptive_dt, TIME_STEP)
        /\ ~config.use_adaptive_timestep => adaptive_dt = TIME_STEP

\* the smallest suggestion lies below the floor and the result is the
\* floor, one active body having a radius that is not a number
C7_Witness ==
    /\ pc = "dt_output"
    /\ config.use_adaptive_timestep
    /\ adaptive_dt = Mul(<<1, 100>>, TIME_STEP)
    /\ \E i \in 1..Len(bodies) : bodies[i].active /\ IsNaN(bodies[i].radius)
    /\ \E i \in 1..Len(bodies) :
          bodies[i].active /\ bodies[i].acceleration.x = <<-40000, 1>>

----------------------------------------------------------------------------
(* C8 *)

\* C8 (idempotent inactivity): a full step (acceleration pass, collision
\* pass, integration pass) leaves the mass, radius, position, velocity,
\* acceleration, previous acceleration and name of every body that was
\* inactive when the step began as they were; stepping a body set that is
\* all inactive changes no position and no velocity.
C8_IdempotentInactivity ==
    variant = "optimized" =>
        \A i \in 1..Len(bodies) :
            ~hist.start[i].active => bodies[i] = hist.start[i]

\* the integration pass of a step has run, a body was inactive when the
\* step began and an active body has moved
C8_Witness ==
    /\ variant = "optimized"
    /\ pc = "energy"
    /\ \E i \in 1..Len(bodies) : ~hist.start[i].active
    /\ \E j \in 1..Len(bodies) : bodies[j].position # hist.start[j].position

----------------------------------------------------------------------------
(* C9 *)

\* other states an inactive body could be in: heavy, huge and on top of the
\* first body, or without mass and radius
OtherStates ==
    { [mass |-> <<7, 1>>, radius |-> <<1000, 1>>,
       position |-> VZero, velocity |-> Vector3(<<9, 1>>, Zero, Zero)],
      [mass |-> Zero, radius |-> Zero,
       position |-> Vector3(<<3, 1>>, Zero, Zero),
       velocity |-> Vector3(<<-9, 1>>, Zero, Zero)] }

\* the body vectors that agree with bs on its active bodies and hold some
\* other state for each inactive one
Scrambles(bs) ==
    { [i \in 1..Len(bs) |->
          IF bs[i].active THEN bs[i]
          ELSE [bs[i] EXCEPT !.mass = f[i].mass, !.radius = f[i].radius,
                             !.position = f[i].position,
                             !.velocity = f[i].velocity]]
      : f \in [1..Len(bs) -> OtherStates] }

\* the same bodies are active in a and b, and they are in the same state
SameActive(a, b) ==
    \A i \in 1..Len(a) :
        /\ a[i].active = b[i].active
        /\ a[i].active => a[i] = b[i]

SameEnergy(e, f) ==
    /\ e.kinetic = f.kinetic
    /\ e.potential = f.potential
    /\ e.total = f.total

\* what one step computes from the body vector bs: the step, the vector
\* after the acceleration pass, after the collision pass and after the
\* integration pass, the merges, and the energy before and after
StepView(bs) ==
    LET dt == calculate_adaptive_timestep(bs, TIME_STEP)
        accelerated == AccelerationPass(bs)
        merged == CollisionPass(accelerated, 0)
        after == IntegrationPass(merged.bodies, dt)
    IN  [dt |-> dt, accelerated |-> accelerated, merges |-> merged.count,
         merged |-> merged.bodies, after |-> after,
         energy |-> calculate_system_energy(bs),
         energy_after |-> calculate_system_energy(after)]

SameView(v, w) ==
    /\ v.dt = w.dt
    /\ SameActive(v.accelerated, w.accelerated)
    /\ v.merges = w.merges
    /\ SameActive(v.merged, w.merged)
    /\ SameActive(v.after, w.after)
    /\ SameEnergy(v.energy, w.energy)
    /\ SameEnergy(v.energy_after, w.energy_after)

\* C9 (inactive bodies have no influence): two body sets that agree on the
\* active bodies and differ only in the mass, radius, position and velocity
\* of inactive ones get, from one step, the same accelerations, the same
\* merges, the same adaptive dt and the same kinetic, potential and total
\* energy.
C9_InactiveNoInfluence ==
    (variant = "optimized" /\ pc = "top" /\ Representable(bodies)) =>
        LET view == StepView(bodies)
        IN  \A other \in Scrambles(bodies) : SameView(StepView(other), view)

\* a step is about to begin from a body set with an inactive body and two
\* active ones, which attract each other
C9_Witness ==
    /\ variant = "optimized"
    /\ pc = "top"
    /\ Representable(bodies)
    /\ Cardinality(Active(bodies)) = 2
    /\ Cardinality(Active(bodies)) < Len(bodies)
    /\ simulation_running
    /\ iteration < iterations

----------------------------------------------------------------------------
(* C10 *)

\* the order of section 4: adaptive dt, accelerations, collisions,
\* integration, energy, publication (the shared copy, then the file)
StrictOrder == <<"dt", "accel", "collide", "integrate", "energy", "publish", "save">>

\* the phase the simulation thread is in
PhaseOf(p) ==
    IF p \in {"publish_copy", "publish_unlock"} THEN "publish"
    ELSE IF p = "save_rows" THEN "save"
    ELSE p

\* C10 (strict phase order): within every iteration the phases happen in the
\* order adaptive dt, acceleration pass, collision pass, integration pass,
\* energy recomputation, publication; no phase of the next iteration begins
\* before the publication of this one, and no body is moved before every
\* body's acceleration of the iteration has been computed.
C10_StrictPhaseOrder ==
    /\ [](variant = "optimized" =>
            /\ Len(hist.phases) <= Len(StrictOrder)
            /\ hist.phases = SubSeq(StrictOrder, 1, Len(hist.phases)))
    /\ []((variant = "optimized" /\ InIteration) =>
            PhaseOf(pc) = StrictOrder[Len(hist.phases) + 1])
    /\ []((variant = "optimized" /\ pc \in {"dt", "accel"}) =>
            \A i \in 1..Len(bodies) :
                /\ bodies[i].position = hist.start[i].position
                /\ bodies[i].velocity = hist.start[i].velocity)
    /\ [][(variant = "optimized" /\ pc # "dt" /\ pc' = "dt") =>
            \/ (iteration = 0 /\ hist.phases = << >>)
            \/ (hist.phases = StrictOrder /\ current_bodies = bodies)]_vars

\* the second iteration of a run in which bodies have merged has run all of
\* its phases
C10_Witness ==
    /\ variant = "optimized"
    /\ pc = "end"
    /\ iteration = 1
    /\ collision_count > 0
    /\ hist.phases = StrictOrder

----------------------------------------------------------------------------
(* C11 *)

\* the holder of data_mutex is copying into the published snapshot: only
\* the simulation thread ever does, in the block around current_bodies =
\* bodies
CopyingSnapshot ==
    data_mutex = "sim" /\ pc \in {"publish_copy", "publish_unlock"}

\* C11 (lock discipline): data_mutex is held only while the published
\* snapshot current_bodies is being copied or replaced, every write to
\* current_bodies happens with data_mutex held by the writer, and no reader
\* holds data_mutex while it renders or prints what it has read.
C11_LockDiscipline ==
    /\ [](data_mutex # "none" => CopyingSnapshot)
    /\ [][current_bodies' # current_bodies =>
             (data_mutex = "sim" /\ data_mutex' = "sim")]_vars
    /\ [][displayed' # displayed => data_mutex # "main"]_vars

----------------------------------------------------------------------------
(* C12 *)

\* C12 (single merge per absorbed body): within one collision pass every
\* pair (i, j) that is tested has i < j and is tested at most once; a body
\* whose active flag a merge of the pass has cleared, as the outer-index or
\* as the inner-index body, is in no later call of handle_collision of that
\* pass; every call clears exactly one flag, and collision_count grows by
\* the number of calls.
C12_SingleMergePerBody ==
    LET log == hist.log
    IN  /\ \A n \in 1..Len(log) :
              /\ log[n].i < log[n].j
              /\ log[n].called => Cardinality(log[n].cleared) = 1
              /\ log[n].cleared \subseteq {log[n].i, log[n].j}
        /\ \A m \in 1..Len(log) : \A n \in 1..Len(log) :
              m < n =>
                /\ <<log[m].i, log[m].j>> # <<log[n].i, log[n].j>>
                /\ log[n].called =>
                      log[m].cleared \cap {log[n].i, log[n].j} = {}
        /\ collision_count =
              hist.count0 + Cardinality({n \in 1..Len(log) : log[n].called})

\* a pass has merged twice: the first merge cleared the flag of its
\* outer-index body, that body was tested against a later body without a
\* call, and the second merge cleared the flag of its inner-index body
C12_Witness ==
    LET log == hist.log
    IN  \E m \in 1..Len(log) : \E n \in 1..Len(log) : \E q \in 1..Len(log) :
            /\ m < n /\ n < q
            /\ log[m].called /\ log[m].cleared = {log[m].i}
            /\ log[n].i = log[m].i /\ ~log[n].called
            /\ log[q].called /\ log[q].cleared = {log[q].j}

----------------------------------------------------------------------------
(* C13 *)

\* the body vector bs with every position and radius as in the vector start
Frozen(bs, start) ==
    [k \in 1..Len(bs) |->
        [bs[k] EXCEPT !.position = start[k].position, !.radius = start[k].radius]]

\* the pairs a collision pass merges when the test of every pair reads the
\* positions and radii of the vector start: the loops of the pass from the
\* pair (i, j) on
RECURSIVE FrozenMergesFrom(_, _, _, _)
FrozenMergesFrom(start, bs, i, j) ==
    IF i > Len(bs) THEN {}
    ELSE IF j > Len(bs) THEN
        IF i + 1 <= Len(bs) /\ ~bs[i + 1].active
        THEN FrozenMergesFrom(start, bs, i + 1, Len(bs) + 1)
        ELSE FrozenMergesFrom(start, bs, i + 1, i + 2)
    ELSE IF ~bs[j].active THEN FrozenMergesFrom(start, bs, i, j + 1)
    ELSE IF check_collision(Frozen(bs, start), i, j)
         THEN {<<i, j>>} \cup FrozenMergesFrom(start, handle_collision(bs, i, j), i, j + 1)
         ELSE FrozenMergesFrom(start, bs, i, j + 1)

FrozenMerges(start) ==
    IF ~config.enable_collision_detection \/ Len(start) = 0 THEN {}
    ELSE IF ~start[1].active THEN FrozenMergesFrom(start, start, 1, Len(start) + 1)
    ELSE FrozenMergesFrom(start, start, 1, 2)

\* the pairs the collision pass has merged
Merges(log) == {<<log[n].i, log[n].j>> : n \in {m \in 1..Len(log) : log[m].called}}

\* C13 (collision detection on the pre-step snapshot): the pairs a collision
\* pass merges are the pairs a pass would merge whose tests read the
\* positions and radii the bodies had when the pass started, also when an
\* earlier merge of the pass has changed a survivor.
C13_FrozenSnapshotDetection ==
    pc = "collide_output" => Merges(hist.log) = FrozenMerges(hist.start)

----------------------------------------------------------------------------
(* C14 *)

\* the index of the body that outlives a merge of before[i] and before[j]
SurvivorOf(before, i, j) == IF Le(before[j].mass, before[i].mass) THEN i ELSE j

\* after is before with the active bodies i and j merged: the survivor is
\* active and has the summed mass, the mass-weighted velocity and position
\* and the cube root of the summed cubes of the radii (to the resolution of
\* the roots); the other body has lost its flag and nothing else
MergedInto(before, after, i, j) ==
    LET s == SurvivorOf(before, i, j)
        o == IF s = i THEN j ELSE i
        total == Add(before[i].mass, before[j].mass)
        cubes == Add(Pow3(before[i].radius), Pow3(before[j].radius))
    IN  /\ after[s].active
        /\ after[s].mass = total
        /\ VScale(after[s].velocity, total) =
              VAdd(VScale(before[i].velocity, before[i].mass),
                   VScale(before[j].velocity, before[j].mass))
        /\ VScale(after[s].position, total) =
              VAdd(VScale(before[i].position, before[i].mass),
                   VScale(before[j].position, before[j].mass))
        /\ Le(Pow3(after[s].radius), cubes)
        /\ Lt(cubes, Pow3(Add(after[s].radius, <<1, RootScale>>)))
        /\ ~after[o].active
        /\ after[o].mass = before[o].mass
        /\ after[o].position = before[o].position
        /\ after[o].velocity = before[o].velocity
        /\ after[o].radius = before[o].radius

\* the one call of handle_collision of a collision pass that made one
OnlyMerge(log) == CHOOSE p \in Merges(log) : TRUE

\* C14 (survivor selection): when handle_collision(body1, body2) merges two
\* active bodies the survivor is body1 if body1.mass >= body2.mass and body2
\* otherwise; the survivor receives the merged mass, velocity, position and
\* radius, the other body's active flag is cleared and its mass, position,
\* velocity and radius are left as they were.
C14_SurvivorSelection ==
    /\ (pc = "collide_output" /\ Cardinality(Merges(hist.log)) = 1) =>
          MergedInto(hist.start, bodies, OnlyMerge(hist.log)[1], OnlyMerge(hist.log)[2])
    /\ pc = "collide_input" =>
          \A i \in Active(bodies) : \A j \in Active(bodies) :
              i # j => MergedInto(bodies, handle_collision(bodies, i, j), i, j)

\* a collision pass has merged one pair and the lighter first operand was
\* absorbed by the second
C14_Witness ==
    /\ pc = "collide_output"
    /\ Cardinality(Merges(hist.log)) = 1
    /\ LET p == OnlyMerge(hist.log)
       IN  /\ Lt(hist.start[p[1]].mass, hist.start[p[2]].mass)
           /\ bodies[p[2]].active
           /\ ~bodies[p[1]].active

----------------------------------------------------------------------------
(* C15 *)

\* C15 (survivor name): after a merge the survivor's name is its own
\* previous name, then "+", then the absorbed body's name, whether the first
\* or the second operand of handle_collision survived.
C15_SurvivorNameOrder ==
    (pc = "collide_output" /\ Cardinality(Merges(hist.log)) = 1) =>
        LET p == OnlyMerge(hist.log)
            s == SurvivorOf(hist.start, p[1], p[2])
            o == IF s = p[1] THEN p[2] ELSE p[1]
        IN  bodies[s].name = hist.start[s].name \o <<"+">> \o hist.start[o].name

----------------------------------------------------------------------------
(* C16 *)

\* the total energy of the body vector bs and its relative error against
\* the total energy of the body vector base
Measured(bs, base) ==
    LET total == Add(KineticSum(bs, 1, Zero), PotentialSum(bs, 1, 2, Zero))
        baseline == Add(KineticSum(base, 1, Zero), PotentialSum(base, 1, 2, Zero))
    IN  [total |-> total,
         relative_error |-> Div(FAbs(Sub(total, baseline)), FAbs(baseline))]

\* the rows of bodies in the file, the header left out
DataRows(c) == {c.rows[n] : n \in 2..Len(c.rows)}

\* C16 (energy baseline lifecycle): initial_energy is captured once, from
\* the initial body set before the first iteration, and never changes
\* afterwards; with energy monitoring enabled current_energy changes only in
\* the energy phase of an iteration whose index is divisible by 100, and
\* the total energy and energy error of every published row are those of
\* the bodies as the most recent such iteration left them, measured against
\* that baseline.
C16_EnergyBaselineLifecycle ==
    /\ [][initial_energy' # initial_energy => (pc = "start" /\ iteration = 0)]_vars
    /\ [](pc # "start" =>
            /\ initial_energy.kinetic = KineticSum(hist.initial, 1, Zero)
            /\ initial_energy.potential = PotentialSum(hist.initial, 1, 2, Zero)
            /\ initial_energy.total = Measured(hist.initial, hist.initial).total)
    /\ [][current_energy' # current_energy =>
             (pc = "energy" /\ iteration % 100 = 0)]_vars
    /\ [](\A r \in DataRows(csv) :
            LET m == Measured(hist.samples[(r.iteration \div 100) + 1], hist.initial)
            IN  /\ r.total_system_energy = m.total
                /\ r.energy_error = m.relative_error)

\* iteration 101 has published its rows: they carry the energy measured in
\* iteration 100, which is neither the energy measured in iteration 0 nor
\* the energy the bodies have now against the one they had after iteration 0
C16_Witness ==
    /\ pc = "end"
    /\ iteration = 101
    /\ Len(hist.samples) = 2
    /\ \E r \in DataRows(csv) :
          /\ r.iteration = 101
          /\ r.total_system_energy = Measured(hist.samples[2], hist.initial).total
          /\ r.total_system_energy # Measured(hist.samples[1], hist.initial).total

----------------------------------------------------------------------------
(* C17 *)

\* the acceleration body i used in the iteration before this one: the one
\* it held when this iteration began, and zero in iteration 0
UsedBefore(i) == IF iteration = 0 THEN VZero ELSE hist.start[i].acceleration

\* C17 (retained acceleration): for every body that is active when it is
\* integrated, prev_acceleration after verlet_update is the acceleration
\* used in that update, and the velocity update of iteration k averages the
\* acceleration the acceleration pass of iteration k computed for the body
\* with the acceleration the body used in iteration k - 1 (zero in
\* iteration 0).
C17_RetainedAcceleration ==
    /\ []((variant = "optimized" /\ pc = "integrate") =>
            \A i \in Active(bodies) :
                /\ bodies[i].acceleration = AccelerationOf(hist.start, i, 1, VZero)
                /\ bodies[i].prev_acceleration = UsedBefore(i))
    /\ [][(variant = "optimized" /\ pc = "integrate" /\ pc' # pc) =>
            \A i \in Active(bodies) :
                /\ bodies'[i].prev_acceleration = bodies[i].acceleration
                /\ bodies'[i].acceleration = bodies[i].acceleration
                /\ bodies'[i].velocity =
                      VAdd(bodies[i].velocity,
                           VScale(VAdd(UsedBefore(i), bodies[i].acceleration),
                                  Mul(Half, adaptive_dt)))]_vars

\* the integration pass of iteration 1 has run on an active body that used
\* one acceleration in iteration 0 and another in iteration 1
C17_Witness ==
    /\ variant = "optimized"
    /\ pc = "energy"
    /\ iteration = 1
    /\ \E i \in Active(bodies) :
          /\ hist.start[i].acceleration # VZero
          /\ bodies[i].acceleration # hist.start[i].acceleration
          /\ bodies[i].prev_acceleration = bodies[i].acceleration

----------------------------------------------------------------------------
(* C18 *)

\* the body vector bs after k more iterations of run_simulation's loop
RECURSIVE StateAfter(_, _)
StateAfter(bs, k) == IF k = 0 THEN bs ELSE StateAfter(EulerStep(bs), k - 1)

\* C18 (history export): after a run of run_simulation with save_data set
\* the exported file holds one row for every iteration of the run (the
\* initial state counted as iteration 0) and every body, and the leading
\* column of a row is the iteration whose body state the row holds.
C18_HistoryExportComplete ==
    (pc = "run_done" /\ save_data /\ results.exists) =>
        LET rows == DataRows(results)
        IN  /\ \A k \in 0..iterations : \A b \in 1..Len(bodies) :
                  \E r \in rows : r.iteration = k /\ r.body_id = b - 1
            /\ \A r \in rows :
                  LET then == StateAfter(hist.initial, r.iteration)[r.body_id + 1]
                  IN  /\ r.position = then.position
                      /\ r.velocity = then.velocity

----------------------------------------------------------------------------
(* C19 *)

\* the name nm holds the letter c
Holds(nm, c) == \E n \in 1..Len(nm) : nm[n] = c

\* C19 (soft deletion is permanent and never total): through every step the
\* body vector keeps its length and every body its index (the name it
\* started with stays in its name), a body whose active flag is cleared
\* stays inactive, the number of active bodies does not grow, and when the
\* initial set has an active body some body is active in every state.
C19_SoftDeletion ==
    /\ [][variant = "optimized" =>
            /\ Len(bodies') = Len(bodies)
            /\ \A i \in 1..Len(bodies) : ~bodies[i].active => ~bodies'[i].active
            /\ Cardinality(Active(bodies')) <= Cardinality(Active(bodies))]_vars
    /\ [](variant = "optimized" =>
            /\ Len(bodies) = Len(hist.initial)
            /\ \A i \in 1..Len(bodies) :
                  Holds(bodies[i].name, hist.initial[i].name[1])
            /\ Active(bodies) \subseteq Active(hist.initial)
            /\ Active(hist.initial) # {} => Active(bodies) # {})

\* three active bodies have merged into one, and the two absorbed bodies
\* have stayed in the vector, inactive, through the next iteration
C19_Witness ==
    /\ variant = "optimized"
    /\ iteration = 1
    /\ pc = "end"
    /\ Len(bodies) = 3
    /\ Cardinality(Active(hist.initial)) = 3
    /\ Cardinality(Active(bodies)) = 1
    /\ Cardinality(Active(hist.start)) = 1

----------------------------------------------------------------------------
(* C20 *)

\* C20 (relative energy error is well defined): whenever the step loop
\* computes relative_error the captured baseline total is not zero, so the
\* energy error held in current_energy and the one in every published row
\* is a finite number, for every initial body set with an active body.
C20_RelativeErrorDefined ==
    (variant = "optimized" /\ Active(hist.initial) # {}) =>
        /\ (pc = "energy" /\ config.enable_energy_monitoring /\ iteration % 100 = 0)
              => ~IsZero(initial_energy.total)
        /\ IsFinite(current_energy.relative_error)
        /\ \A r \in DataRows(csv) : IsFinite(r.energy_error)

====
